---- MODULE Spec2Model ----
(***************************************************************************)
(* A model of the dashboard's two stateful parts:                          *)
(*   - DataTable (components/tables/DataTable.tsx): the search term, the   *)
(*     tri-state sort cycle and the filter+sort pipeline "processedData";  *)
(*   - the query hooks of hooks/useDashboardData.ts running on the         *)
(*     TanStack Query client configured in App.tsx: cache entries,         *)
(*     observers, in-flight fetches, invalidation, cancellation and the    *)
(*     optimistic createTransaction mutation.                              *)
(***************************************************************************)
EXTENDS Integers, Sequences, FiniteSets, TLC

(***************************************************************************)
(* Bounds of the model.                                                    *)
(***************************************************************************)
MaxRows == 3

MaxClicks == 4

\* ------------------------------------------------------------------------
\* DataTable: values, rows, columns
\* ------------------------------------------------------------------------

\* A cell value: null/undefined, a string or a number (a Date cell would be
\* [kind |-> "date", t |-> its instant]).  A string is a sequence of
\* characters; a character is a record of its base (1 = a,
\* 2 = b, 100 + d = the digit d) and its case.
NullValue == [kind |-> "null"]

Str(s) == [kind |-> "string", s |-> s]

Num(n) == [kind |-> "number", n |-> n]

Lc(b) == [base |-> b, upper |-> FALSE]

Uc(b) == [base |-> b, upper |-> TRUE]

\* The cell values a row is built from.
DescriptionPool == {NullValue, Str(<<Lc(1)>>), Str(<<Uc(2)>>)}

AmountPool == {NullValue, Num(1), Num(2)}

\* columns: ColumnDef<T>[] -- id, accessorKey (or "none") and sortable.
columns ==
  << [id |-> "description", accessorKey |-> "description", sortable |-> TRUE],
     [id |-> "amount",      accessorKey |-> "amount",      sortable |-> TRUE],
     [id |-> "actions",     accessorKey |-> "none",        sortable |-> TRUE] >>

ColumnIds == {columns[i].id : i \in 1..Len(columns)}

\* SortState of the component; column = "null" is no active column.
NoColumn == "null"

\* The searchFields prop: left out by the caller, or an explicit list.
NoSearchFields == [given |-> FALSE, fields |-> <<>>]

SearchFieldsPool ==
  {NoSearchFields, [given |-> TRUE, fields |-> <<"description">>],
   [given |-> TRUE, fields |-> <<>>]}

\* What the user can type into the search input.
SearchTermPool == {<<>>, <<Lc(1)>>, <<Uc(1)>>, <<Lc(2)>>, <<Lc(101)>>}

VARIABLES
  data,         \* DataTable prop: the rows handed in by the caller
  searchFields, \* DataTable prop: the fields to search within
  searchTerm,   \* useState('')
  sortState,    \* useState<SortState>({column: null, direction: 'asc'})
  clickRun,     \* history: the header clicked and how many times in a row,
                \* counted from a click made in the unsorted state
  memoized      \* the value of processedData that useMemo holds

tableVars == <<data, searchFields, searchTerm, sortState, clickRun, memoized>>

VARIABLES
  now,           \* Date.now(), in minutes
  transactions,  \* the mock store array `transactions` of data/mockData.ts
  queries,       \* the QueryCache: one entry (or none) per query key
  requests,      \* the queryFn promises that have not settled yet
  mutations,     \* the createTransaction mutations awaiting their mutationFn
                 \* (with history: the data read by the snapshot, and the
                 \* requests that were outstanding when onMutate ran)
  mutationCount, \* how many createTransaction mutations were started
  dropped        \* history: the last event was the arrival of the
                 \* response of a cancelled request

cacheVars ==
  <<now, transactions, queries, requests, mutations, mutationCount, dropped>>

VARIABLES
  users,         \* the mock store array `users` of data/mockData.ts
  userMutations, \* the updateUser mutations awaiting their mutationFn
  userResult     \* status and error of useUpdateUser's result

userVars == <<users, userMutations, userResult>>

\* ------------------------------------------------------------------------
\* DataTable: comparator and pipeline
\* ------------------------------------------------------------------------

\* columns.find((col) => col.id === id)?.accessorKey
AccessorOf(id) ==
  IF \E i \in 1..Len(columns) : columns[i].id = id
  THEN LET i == CHOOSE j \in 1..Len(columns) :
                  /\ columns[j].id = id
                  /\ \A h \in 1..(j - 1) : columns[h].id # id
       IN columns[i].accessorKey
  ELSE "none"

\* Lexicographic comparison of two sequences of integers: -1, 0 or 1.
RECURSIVE LexCompare(_, _)
LexCompare(s, t) ==
  IF s = <<>> /\ t = <<>> THEN 0
  ELSE IF s = <<>> THEN -1
  ELSE IF t = <<>> THEN 1
  ELSE IF Head(s) < Head(t) THEN -1
  ELSE IF Head(s) > Head(t) THEN 1
  ELSE LexCompare(Tail(s), Tail(t))

\* String.prototype.localeCompare: base letters decide first; on a tie the
\* case decides, lower case before upper case.
LocaleCompare(s, t) ==
  LET bases(x) == [i \in 1..Len(x) |-> x[i].base]
      cases(x) == [i \in 1..Len(x) |-> IF x[i].upper THEN 1 ELSE 0]
      primary  == LexCompare(bases(s), bases(t))
  IN IF primary # 0 THEN primary ELSE LexCompare(cases(s), cases(t))

\* A comparator that forgets the direction of non-null values.
SortCompare_NoNegation(aValue, bValue, direction) ==
  IF aValue.kind = "null" /\ bValue.kind = "null" THEN 0
  ELSE IF aValue.kind = "null" THEN (IF direction = "asc" THEN -1 ELSE 1)
  ELSE IF bValue.kind = "null" THEN (IF direction = "asc" THEN 1 ELSE -1)
  ELSE IF aValue.kind = "string" /\ bValue.kind = "string"
       THEN LocaleCompare(aValue.s, bValue.s)
       ELSE IF aValue.n < bValue.n THEN -1
       ELSE IF aValue.n > bValue.n THEN 1 ELSE 0

\* The comparator handed to result.sort in processedData.
SortCompare(aValue, bValue, direction) ==
  IF aValue.kind = "null" /\ bValue.kind = "null" THEN 0
  ELSE IF aValue.kind = "null" THEN (IF direction = "asc" THEN -1 ELSE 1)
  ELSE IF bValue.kind = "null" THEN (IF direction = "asc" THEN 1 ELSE -1)
  ELSE LET comparison ==
             IF aValue.kind = "string" /\ bValue.kind = "string"
             THEN LocaleCompare(aValue.s, bValue.s)
             ELSE IF aValue.kind = "date" /\ bValue.kind = "date"
             THEN aValue.t - bValue.t
             ELSE IF aValue.n < bValue.n THEN -1
             ELSE IF aValue.n > bValue.n THEN 1 ELSE 0
       IN IF direction = "asc" THEN comparison ELSE 0 - comparison

\* Array.prototype.sort is a stable sort: an element is placed after every
\* element that does not compare greater than it.
RECURSIVE InsertSorted(_, _, _, _)
InsertSorted(row, sorted, accessor, direction) ==
  IF sorted = <<>> THEN <<row>>
  ELSE IF SortCompare(Head(sorted)[accessor], row[accessor], direction) > 0
       THEN <<row>> \o sorted
       ELSE <<Head(sorted)>> \o InsertSorted(row, Tail(sorted), accessor, direction)

RECURSIVE StableSort(_, _, _)
StableSort(rows, accessor, direction) ==
  IF rows = <<>> THEN <<>>
  ELSE InsertSorted(rows[Len(rows)],
                    StableSort(SubSeq(rows, 1, Len(rows) - 1), accessor, direction),
                    accessor, direction)

\* String.prototype.toLowerCase
ToLowerCase(s) == [i \in 1..Len(s) |-> [base |-> s[i].base, upper |-> FALSE]]

\* The decimal digits of a natural number, as a string.
RECURSIVE Digits(_)
Digits(n) ==
  IF n < 10 THEN <<Lc(100 + n)>>
  ELSE Digits(n \div 10) \o <<Lc(100 + (n % 10))>>

\* String(value) of a non-null string or number cell.
StringOf(value) ==
  IF value.kind = "string" THEN value.s ELSE Digits(value.n)

\* String.prototype.includes
Includes(hay, needle) ==
  \E i \in 0..(Len(hay) - Len(needle)) :
     SubSeq(hay, i + 1, i + Len(needle)) = needle

\* fieldsToSearch = searchFields || columns.filter(accessorKey).map(accessorKey)
FieldsToSearch(sf) ==
  IF sf.given THEN sf.fields
  ELSE LET keyed == SelectSeq(columns, LAMBDA col : col.accessorKey # "none")
       IN [i \in 1..Len(keyed) |-> keyed[i].accessorKey]

\* A filter predicate that lower-cases the search text only.
RowMatches_CaseSensitive(row, term, sf) ==
  LET searchLower == ToLowerCase(term)
      fields == FieldsToSearch(sf)
  IN \E i \in 1..Len(fields) :
        LET value == row[fields[i]]
        IN /\ value.kind # "null"
           /\ Includes(StringOf(value), searchLower)

\* The predicate of result.filter: some searched field matches.
RowMatches(row, term, sf) ==
  LET searchLower == ToLowerCase(term)
      fields == FieldsToSearch(sf)
  IN \E i \in 1..Len(fields) :
        LET value == row[fields[i]]
        IN /\ value.kind # "null"
           /\ Includes(ToLowerCase(StringOf(value)), searchLower)

\* The search filter of processedData: skipped when searchTerm is empty.
FilteredRows(rows, term, sf) ==
  IF term # <<>>
  THEN SelectSeq(rows, LAMBDA row : RowMatches(row, term, sf))
  ELSE rows

\* A descending sort obtained by reversing the ascending one.
SortedRows_ReverseForDesc(rows, state) ==
  IF state.column # NoColumn /\ AccessorOf(state.column) # "none"
  THEN LET s == StableSort(rows, AccessorOf(state.column), "asc")
       IN IF state.direction = "asc" THEN s
          ELSE [i \in 1..Len(s) |-> s[Len(s) + 1 - i]]
  ELSE rows

\* A sort that falls back to the first data field when the active column
\* has no accessorKey.
SortedRows_SortsWithoutAccessor(rows, state) ==
  IF state.column # NoColumn
  THEN StableSort(rows,
                  IF AccessorOf(state.column) # "none"
                  THEN AccessorOf(state.column) ELSE "description",
                  state.direction)
  ELSE rows

\* The sort of processedData: skipped when no column is active or the active
\* column has no accessorKey.
SortedRows(rows, state) ==
  IF state.column # NoColumn /\ AccessorOf(state.column) # "none"
  THEN StableSort(rows, AccessorOf(state.column), state.direction)
  ELSE rows

\* A pipeline that adds the matching rows to the copy of the input instead
\* of replacing it.
Process_AppendsMatches(rows, term, sf, state) ==
  SortedRows(IF term # <<>> THEN rows \o FilteredRows(rows, term, sf) ELSE rows,
             state)

\* The whole pipeline as a function of its inputs.
Process(rows, term, sf, state) == SortedRows(FilteredRows(rows, term, sf), state)

\* useMemo(() => ..., [data, searchTerm, sortState, columns, searchFields])
ProcessedData == Process(data, searchTerm, searchFields, sortState)

\* ------------------------------------------------------------------------
\* Query cache: keys, configuration, entries
\* ------------------------------------------------------------------------

\* Bounds of the cache model.
MaxTime == 11

TxnMaxTime == 6

MaxObservers == 2

MaxRequests == 2

MaxMutations == 2

FairMaxTime == 1

MaxUserMutations == 1

\* The clock of the dashboard-with-transactions configuration stops here.
RecentMaxTime == 1

\* queryKeys
TxnKey == <<"transactions">>

SummaryKey == <<"dashboard", "summary">>

KpisKey == <<"kpis">>

UsersKey == <<"users">>

\* [...queryKeys.users, filters] of useUsers() called without filters
UsersListKey == <<"users", "undefined">>

UserByIdKey(id) == <<"users", id>>

\* Query defaults of the QueryClient and per-hook options, in minutes.
DefaultStaleTime == 5

GcTime == 10

Retry == 1

SummaryStaleTime == 5

KpiStaleTime == 1

\* The staleTime a hook's observer reads its query with.
StaleTimeOf(k) ==
  IF k = SummaryKey THEN SummaryStaleTime
  ELSE IF k = KpisKey THEN KpiStaleTime
  ELSE DefaultStaleTime

\* A match on the whole key only.
HasPrefix_Exact(k, prefix) == k = prefix

\* Whether key k starts with the given prefix (partial query-key matching).
HasPrefix(k, prefix) ==
  /\ Len(prefix) <= Len(k)
  /\ SubSeq(k, 1, Len(prefix)) = prefix

\* Cached data: undefined, the store array itself (the queryFn returns the
\* module-level array, not a copy), or an array of the cache's own.
NoData == [has |-> FALSE, alias |-> FALSE, val |-> <<>>]

StoreArray == [has |-> TRUE, alias |-> TRUE, val |-> <<>>]

OwnArray(val) == [has |-> TRUE, alias |-> FALSE, val |-> val]

\* What the data currently reads as, given the store's present content.
Deref(d, store) == IF d.alias THEN store ELSE d.val

\* The part of a query's state that a cancelled fetch is reverted to.
NoRevert ==
  [set |-> FALSE, data |-> NoData, status |-> "pending", error |-> "null",
   isInvalidated |-> FALSE, dataUpdatedAt |-> 0]

RevertOf(q) ==
  [set |-> TRUE, data |-> q.data, status |-> q.status, error |-> q.error,
   isInvalidated |-> q.isInvalidated, dataUpdatedAt |-> q.dataUpdatedAt]

\* No entry for the key / an entry as queryCache.build creates it.
NoQuery ==
  [exists |-> FALSE, data |-> NoData, status |-> "pending",
   fetchStatus |-> "idle", error |-> "null", isInvalidated |-> FALSE,
   dataUpdatedAt |-> 0, observers |-> 0, retryer |-> 0, gcAt |-> -1,
   revert |-> NoRevert]

BuiltQuery(t) == [NoQuery EXCEPT !.exists = TRUE, !.gcAt = t + GcTime]

\* Transaction ids: the seeded ones, `txn-${Date.now()}`, `temp-${Date.now()}`.
TxnId(tag, n) == [tag |-> tag, n |-> n]

InitialTransactions == <<TxnId("seed", 1), TxnId("seed", 2)>>

\* The users of the mock store, by the fields an update is made to here.
InitialUsers ==
  << [id |-> "1", status |-> "active"], [id |-> "2", status |-> "inactive"] >>

\* users.findIndex(u => u.id === id): 0 stands for -1 (not found).
FindIndex(store, id) ==
  IF \E i \in 1..Len(store) : store[i].id = id
  THEN CHOOSE i \in 1..Len(store) :
         /\ store[i].id = id
         /\ \A j \in 1..(i - 1) : store[j].id # id
  ELSE 0

\* The state before any component has mounted, for a cache that is used
\* with the given query keys.
CacheStart(keys) ==
  /\ now = 0
  /\ transactions = InitialTransactions
  /\ queries = [k \in keys |-> NoQuery]
  /\ requests = {}
  /\ mutations = {}
  /\ mutationCount = 0
  /\ dropped = FALSE
  /\ users = InitialUsers
  /\ userMutations = {}
  /\ userResult = [status |-> "idle", error |-> "null"]

\* ------------------------------------------------------------------------
\* Query cache: the client's operations on a cache state
\*   c = [q |-> entries, r |-> outstanding requests]
\* ------------------------------------------------------------------------

\* A structural sharing that never lets go of the previous array.
ReplaceData_KeepsPrevious(prev, new, store) == IF ~prev.has THEN new ELSE prev

\* replaceData / replaceEqualDeep: the previous reference is kept when the
\* new array has the same items, else the result is the new reference (no
\* previous array) or a copy of the new array.
ReplaceData(prev, new, store) ==
  IF ~prev.has THEN new
  ELSE IF Deref(prev, store) = Deref(new, store) THEN prev
  ELSE OwnArray(Deref(new, store))

\* The smallest request id not in use.
FreeId(r) ==
  CHOOSE i \in 1..(Cardinality(r) + 1) :
    /\ \A x \in r : x.id # i
    /\ \A j \in 1..(i - 1) : \E x \in r : x.id = j

\* scheduleGc: the timer matters only while nobody observes the query.
GcAfter(q, t) == IF q.observers = 0 THEN t + GcTime ELSE -1

\* One live (not cancelled) request per start of a fetch.
LiveRequests(r, k) == {x \in r : x.key = k /\ ~x.cancelled}

\* Query.fetch past the dedupe test: remember the state to revert to, go to
\* 'fetching' (and to 'pending' without data), call queryFn.
StartFetch(c, k) ==
  LET q  == c.q[k]
      id == FreeId(c.r)
  IN [q |-> [c.q EXCEPT ![k] =
               [q EXCEPT !.fetchStatus = "fetching",
                         !.status = IF q.data.has THEN q.status ELSE "pending",
                         !.error = IF q.data.has THEN q.error ELSE "null",
                         !.retryer = id,
                         !.revert = RevertOf(q)]],
      r |-> c.r \cup {[id |-> id, key |-> k, calls |-> 1, failureCount |-> 0,
                       cancelled |-> FALSE, noRetry |-> FALSE, aged |-> FALSE]}]

\* A fetch that ignores the one in flight.
Fetch_NoDedupe(c, k, cancelRefetch) == StartFetch(c, k)

\* Query.fetch: a fetch in flight is reused (and its retries resumed), unless
\* cancelRefetch asks for a new one and there is data: then the old request
\* is cancelled silently.
Fetch(c, k, cancelRefetch) ==
  LET q == c.q[k]
  IN IF q.fetchStatus # "idle" /\ q.data.has /\ cancelRefetch
     THEN StartFetch(
            [q |-> [c.q EXCEPT ![k].retryer = 0],
             r |-> {IF x.id = q.retryer THEN [x EXCEPT !.cancelled = TRUE] ELSE x
                      : x \in c.r}], k)
     ELSE IF q.fetchStatus # "idle" /\ q.retryer # 0
     THEN [q |-> c.q,
           r |-> {IF x.id = q.retryer THEN [x EXCEPT !.noRetry = FALSE] ELSE x
                    : x \in c.r}]
     ELSE StartFetch(c, k)

\* A cancel that reverts the query but leaves its request attached.
CancelQuery_KeepsRequest(c, k, t) ==
  LET q == c.q[k]
  IN IF q.exists /\ q.retryer # 0
     THEN [q |-> [c.q EXCEPT ![k] =
                    [q EXCEPT !.data = q.revert.data,
                              !.status = q.revert.status,
                              !.error = q.revert.error,
                              !.isInvalidated = q.revert.isInvalidated,
                              !.dataUpdatedAt = q.revert.dataUpdatedAt,
                              !.fetchStatus = "idle",
                              !.revert = NoRevert,
                              !.gcAt = GcAfter(q, t)]],
           r |-> c.r]
     ELSE c

\* query.cancel({revert: true}): the request is cut off from the query and
\* the query goes back to the state it had when the fetch started.
CancelQuery(c, k, t) ==
  LET q == c.q[k]
  IN IF q.exists /\ q.retryer # 0
     THEN [q |-> [c.q EXCEPT ![k] =
                    [q EXCEPT !.data = q.revert.data,
                              !.status = q.revert.status,
                              !.error = q.revert.error,
                              !.isInvalidated = q.revert.isInvalidated,
                              !.dataUpdatedAt = q.revert.dataUpdatedAt,
                              !.fetchStatus = "idle",
                              !.retryer = 0,
                              !.revert = NoRevert,
                              !.gcAt = GcAfter(q, t)]],
           r |-> {IF x.id = q.retryer THEN [x EXCEPT !.cancelled = TRUE] ELSE x
                    : x \in c.r}]
     ELSE c

\* query.cancel({revert: true}) on each key of the set.
RECURSIVE CancelEach(_, _, _)
CancelEach(c, keys, t) ==
  IF keys = {} THEN c
  ELSE LET k == CHOOSE x \in keys : TRUE
       IN CancelEach(CancelQuery(c, k, t), keys \ {k}, t)

\* queryClient.cancelQueries({queryKey: prefix})
CancelQueries(c, prefix, t) ==
  CancelEach(c, {k \in DOMAIN c.q : HasPrefix(k, prefix)}, t)

\* queryClient.getQueryData(key)
GetQueryData(c, k) == IF c.q[k].exists THEN c.q[k].data ELSE NoData

\* query.setData(data, {manual: true}) after queryCache.build: a success
\* without touching fetchStatus; an undefined value is ignored.
SetQueryData(c, k, new, store, t) ==
  IF ~new.has THEN c
  ELSE LET q == IF c.q[k].exists THEN c.q[k] ELSE BuiltQuery(t)
           written == [q EXCEPT !.data = ReplaceData(q.data, new, store),
                                !.status = "success",
                                !.error = "null",
                                !.isInvalidated = FALSE,
                                !.dataUpdatedAt = t]
       IN [q |-> [c.q EXCEPT ![k] =
                    [written EXCEPT !.revert =
                       IF q.fetchStatus = "idle" THEN NoRevert ELSE RevertOf(written)]],
           r |-> c.r]

\* queryClient.refetchQueries with cancelRefetch on each key of the set.
RECURSIVE RefetchEach(_, _)
RefetchEach(c, keys) ==
  IF keys = {} THEN c
  ELSE LET k == CHOOSE x \in keys : TRUE
       IN RefetchEach(Fetch(c, k, TRUE), keys \ {k})

\* An invalidation that throws the matching entries' data away.
InvalidateQueries_Removes(c, prefix) ==
  LET matching == {k \in DOMAIN c.q : c.q[k].exists /\ HasPrefix(k, prefix)}
      marked == [q |-> [k \in DOMAIN c.q |->
                          IF k \in matching
                          THEN [c.q[k] EXCEPT !.isInvalidated = TRUE,
                                              !.data = NoData,
                                              !.status = "pending"]
                          ELSE c.q[k]],
                 r |-> c.r]
  IN RefetchEach(marked, {k \in matching : c.q[k].observers > 0})

\* queryClient.invalidateQueries({queryKey: prefix}): every matching entry
\* is marked invalidated; those with an observer are refetched at once, a
\* running refetch of theirs being replaced.
InvalidateQueries(c, prefix) ==
  LET matching == {k \in DOMAIN c.q : c.q[k].exists /\ HasPrefix(k, prefix)}
      marked == [q |-> [k \in DOMAIN c.q |->
                          IF k \in matching
                          THEN [c.q[k] EXCEPT !.isInvalidated = TRUE]
                          ELSE c.q[k]],
                 r |-> c.r]
  IN RefetchEach(marked, {k \in matching : c.q[k].observers > 0})

\* A staleness test that forgets the staleTime (the library default of 0).
IsStale_NoStaleTime(q, staleTime, t) ==
  \/ ~q.data.has
  \/ q.isInvalidated
  \/ q.dataUpdatedAt <= t

\* query.isStaleByTime(staleTime)
IsStale(q, staleTime, t) ==
  \/ ~q.data.has
  \/ q.isInvalidated
  \/ q.dataUpdatedAt + staleTime <= t

\* ------------------------------------------------------------------------
\* Query cache: events
\* ------------------------------------------------------------------------

Cache == [q |-> queries, r |-> requests]

\* A component calling the key's hook mounts: its observer subscribes, and
\* fetches when there is no data or the data is stale (refetchOnMount).
Mount(k) ==
  /\ queries[k].observers < MaxObservers
  /\ LET q == IF queries[k].exists THEN queries[k] ELSE BuiltQuery(now)
         subscribed == [q |-> [queries EXCEPT ![k] =
                                 [q EXCEPT !.observers = q.observers + 1,
                                           !.gcAt = -1]],
                        r |-> requests]
         c == IF IsStale(q, StaleTimeOf(k), now)
              THEN Fetch(subscribed, k, FALSE)
              ELSE subscribed
     IN /\ Cardinality(c.r) <= MaxRequests
        /\ queries' = c.q
        /\ requests' = c.r
  /\ dropped' = FALSE
  /\ UNCHANGED <<now, transactions, mutations, mutationCount>>
  /\ UNCHANGED tableVars
  /\ UNCHANGED userVars

\* The component unmounts: with the last observer gone a running fetch
\* loses its retries and the gc timer starts.
Unmount(k) ==
  /\ queries[k].observers > 0
  /\ LET q == queries[k]
         last == q.observers = 1
     IN /\ queries' = [queries EXCEPT ![k] =
                         [q EXCEPT !.observers = q.observers - 1,
                                   !.gcAt = IF last THEN now + GcTime ELSE -1]]
        /\ requests' = {IF last /\ x.id = q.retryer /\ x.key = k
                        THEN [x EXCEPT !.noRetry = TRUE] ELSE x : x \in requests}
  /\ dropped' = FALSE
  /\ UNCHANGED <<now, transactions, mutations, mutationCount>>
  /\ UNCHANGED tableVars
  /\ UNCHANGED userVars

\* Whether the key's queryFn returns a value (useUser throws 'User not
\* found' for an id that is not in the store), and the value it returns:
\* useUsers a fresh copy of the users, useUser the user (held here as a list
\* of one), the other hooks the store array itself.
QueryFnReturns(k) ==
  (Len(k) = 2 /\ k[1] = "users" /\ k # UsersListKey) => FindIndex(users, k[2]) # 0

QueryFnResult(k) ==
  IF k = UsersListKey THEN OwnArray(users)
  ELSE IF Len(k) = 2 /\ k[1] = "users"
  THEN OwnArray(<<users[FindIndex(users, k[2])]>>)
  ELSE StoreArray

\* History: a settled request is no longer one that was outstanding when a
\* mutation started.
Settled(x) == {[m EXCEPT !.inflight = m.inflight \ {x.id}] : m \in mutations}

\* A response that is written whether or not its request was cancelled.
RequestResolves_IgnoresCancel(x) ==
  /\ x \in requests
  /\ ~x.cancelled => QueryFnReturns(x.key)
  /\ requests' = requests \ {x}
  /\ LET q == queries[x.key]
     IN queries' = [queries EXCEPT ![x.key] =
          [q EXCEPT !.data = ReplaceData(q.data, QueryFnResult(x.key), transactions),
                    !.status = "success",
                    !.error = "null",
                    !.isInvalidated = FALSE,
                    !.dataUpdatedAt = now,
                    !.fetchStatus = "idle",
                    !.retryer = 0,
                    !.revert = NoRevert,
                    !.gcAt = GcAfter(q, now)]]
  /\ dropped' = x.cancelled
  /\ mutations' = Settled(x)
  /\ UNCHANGED <<now, transactions, mutationCount>>
  /\ UNCHANGED tableVars
  /\ UNCHANGED userVars

\* A queryFn promise resolves.  A cancelled request's value is dropped; a
\* live one's becomes the entry's data.
RequestResolves(x) ==
  /\ x \in requests
  /\ ~x.cancelled => QueryFnReturns(x.key)
  /\ requests' = requests \ {x}
  /\ IF x.cancelled
     THEN /\ queries' = queries
          /\ dropped' = TRUE
     ELSE /\ LET q == queries[x.key]
             IN queries' = [queries EXCEPT ![x.key] =
                  [q EXCEPT !.data = ReplaceData(q.data, QueryFnResult(x.key), transactions),
                            !.status = "success",
                            !.error = "null",
                            !.isInvalidated = FALSE,
                            !.dataUpdatedAt = now,
                            !.fetchStatus = "idle",
                            !.retryer = 0,
                            !.revert = NoRevert,
                            !.gcAt = GcAfter(q, now)]]
          /\ dropped' = FALSE
  /\ mutations' = Settled(x)
  /\ UNCHANGED <<now, transactions, mutationCount>>
  /\ UNCHANGED tableVars
  /\ UNCHANGED userVars

\* A failure that also throws the entry's data away.
RequestRejects_ClearsData(x) ==
  /\ x \in requests
  /\ IF x.cancelled
     THEN /\ requests' = requests \ {x}
          /\ queries' = queries
          /\ mutations' = Settled(x)
          /\ dropped' = TRUE
     ELSE IF x.failureCount < Retry /\ ~x.noRetry
     THEN /\ requests' = (requests \ {x}) \cup
                {[x EXCEPT !.failureCount = x.failureCount + 1,
                           !.calls = x.calls + 1]}
          /\ queries' = queries
          /\ mutations' = mutations
          /\ dropped' = FALSE
     ELSE /\ requests' = requests \ {x}
          /\ LET q == queries[x.key]
             IN queries' = [queries EXCEPT ![x.key] =
                  [q EXCEPT !.data = NoData,
                            !.dataUpdatedAt = 0,
                            !.status = "error",
                            !.error = "failed",
                            !.fetchStatus = "idle",
                            !.retryer = 0,
                            !.revert = NoRevert,
                            !.gcAt = GcAfter(q, now)]]
          /\ mutations' = Settled(x)
          /\ dropped' = FALSE
  /\ UNCHANGED <<now, transactions, mutationCount>>
  /\ UNCHANGED tableVars
  /\ UNCHANGED userVars

\* A failure that is recorded whether or not its request was cancelled.
RequestRejects_IgnoresCancel(x) ==
  /\ x \in requests
  /\ requests' = requests \ {x}
  /\ LET q == queries[x.key]
     IN queries' = [queries EXCEPT ![x.key] =
          [q EXCEPT !.status = "error",
                    !.error = "failed",
                    !.fetchStatus = "idle",
                    !.retryer = 0,
                    !.revert = NoRevert,
                    !.gcAt = GcAfter(q, now)]]
  /\ mutations' = Settled(x)
  /\ dropped' = x.cancelled
  /\ UNCHANGED <<now, transactions, mutationCount>>
  /\ UNCHANGED tableVars
  /\ UNCHANGED userVars

\* A queryFn promise rejects.  A live request is retried while the retry
\* budget lasts; after that the entry goes to 'error' and keeps its data.
RequestRejects(x) ==
  /\ x \in requests
  /\ IF x.cancelled
     THEN /\ requests' = requests \ {x}
          /\ queries' = queries
          /\ mutations' = Settled(x)
          /\ dropped' = TRUE
     ELSE IF x.failureCount < Retry /\ ~x.noRetry
     THEN /\ requests' = (requests \ {x}) \cup
                {[x EXCEPT !.failureCount = x.failureCount + 1,
                           !.calls = x.calls + 1]}
          /\ queries' = queries
          /\ mutations' = mutations
          /\ dropped' = FALSE
     ELSE /\ requests' = requests \ {x}
          /\ LET q == queries[x.key]
             IN queries' = [queries EXCEPT ![x.key] =
                  [q EXCEPT !.status = "error",
                            !.error = "failed",
                            !.fetchStatus = "idle",
                            !.retryer = 0,
                            !.revert = NoRevert,
                            !.gcAt = GcAfter(q, now)]]
          /\ mutations' = Settled(x)
          /\ dropped' = FALSE
  /\ UNCHANGED <<now, transactions, mutationCount>>
  /\ UNCHANGED tableVars
  /\ UNCHANGED userVars

\* The clock reaches the next minute.  A due gc timer goes first; and the
\* simulated delays (300 to 800 ms, plus a retry delay of one second) are
\* shorter than a minute, so a pending promise sees at most one such step.
Tick(bound) ==
  /\ now < bound
  /\ \A k \in DOMAIN queries : queries[k].gcAt < 0 \/ queries[k].gcAt > now
  /\ \A x \in requests : ~x.aged
  /\ \A m \in mutations : ~m.aged
  /\ \A u \in userMutations : ~u.aged
  /\ now' = now + 1
  /\ requests' = {[x EXCEPT !.aged = TRUE] : x \in requests}
  /\ mutations' = {[m EXCEPT !.aged = TRUE] : m \in mutations}
  /\ userMutations' = {[u EXCEPT !.aged = TRUE] : u \in userMutations}
  /\ dropped' = FALSE
  /\ UNCHANGED <<transactions, queries, mutationCount, users, userResult>>
  /\ UNCHANGED tableVars

\* The gc timer of an unobserved query fires: the entry is removed unless a
\* fetch is still running (its end starts the timer again).
GcTimer(k) ==
  /\ queries[k].gcAt >= 0
  /\ queries[k].gcAt <= now
  /\ queries' = [queries EXCEPT ![k] =
                   IF queries[k].fetchStatus = "idle"
                   THEN NoQuery
                   ELSE [queries[k] EXCEPT !.gcAt = -1]]
  /\ dropped' = FALSE
  /\ UNCHANGED <<now, transactions, requests, mutations, mutationCount>>
  /\ UNCHANGED tableVars
  /\ UNCHANGED userVars

\* ------------------------------------------------------------------------
\* useCreateTransaction
\* ------------------------------------------------------------------------

\* An onMutate that takes its snapshot after the optimistic write.
Mutate_SnapshotAfterWrite ==
  /\ mutationCount < MaxMutations
  /\ LET cancelled == CancelQueries(Cache, TxnKey, now)
         optimisticTransaction == TxnId("temp", now)
         old == GetQueryData(cancelled, TxnKey)
         written == SetQueryData(cancelled, TxnKey,
                      OwnArray(IF old.has
                               THEN <<optimisticTransaction>> \o Deref(old, transactions)
                               ELSE <<optimisticTransaction>>),
                      transactions, now)
         previousTransactions == GetQueryData(written, TxnKey)
     IN /\ queries' = written.q
        /\ requests' = written.r
        /\ mutations' = mutations \cup
              {[id |-> mutationCount + 1,
                previousTransactions |-> previousTransactions,
                before |-> Deref(previousTransactions, transactions),
                temp |-> optimisticTransaction,
                inflight |-> {x.id : x \in requests},
                aged |-> FALSE]}
  /\ mutationCount' = mutationCount + 1
  /\ dropped' = FALSE
  /\ UNCHANGED <<now, transactions>>
  /\ UNCHANGED tableVars
  /\ UNCHANGED userVars

\* mutate(newTransaction): onMutate runs to its end before mutationFn is
\* called -- cancel the reads, snapshot, write the optimistic list.
Mutate ==
  /\ mutationCount < MaxMutations
  /\ LET cancelled == CancelQueries(Cache, TxnKey, now)
         previousTransactions == GetQueryData(cancelled, TxnKey)
         optimisticTransaction == TxnId("temp", now)
         old == previousTransactions
         written == SetQueryData(cancelled, TxnKey,
                      OwnArray(IF old.has
                               THEN <<optimisticTransaction>> \o Deref(old, transactions)
                               ELSE <<optimisticTransaction>>),
                      transactions, now)
     IN /\ queries' = written.q
        /\ requests' = written.r
        /\ mutations' = mutations \cup
              {[id |-> mutationCount + 1,
                previousTransactions |-> previousTransactions,
                before |-> Deref(previousTransactions, transactions),
                temp |-> optimisticTransaction,
                inflight |-> {x.id : x \in requests},
                aged |-> FALSE]}
  /\ mutationCount' = mutationCount + 1
  /\ dropped' = FALSE
  /\ UNCHANGED <<now, transactions>>
  /\ UNCHANGED tableVars
  /\ UNCHANGED userVars

\* onError: the rollback, guarded by the snapshot's truthiness.
OnError(c, m, store, t) ==
  IF m.previousTransactions.has
  THEN SetQueryData(c, TxnKey, m.previousTransactions, store, t)
  ELSE c

\* An onSettled that invalidates every query of the client.
OnSettled_InvalidatesAll(c) == InvalidateQueries(c, <<>>)

\* An onSettled that does nothing.
OnSettled_Nothing(c) == c

\* onSettled
OnSettled(c) == InvalidateQueries(c, TxnKey)

\* mutationFn resolves: the new transaction is put at the head of the store,
\* then onSettled runs.
MutationSucceeds(m) ==
  /\ m \in mutations
  /\ transactions' = <<TxnId("txn", now)>> \o transactions
  /\ LET c == OnSettled(Cache)
     IN /\ Cardinality(c.r) <= MaxRequests
        /\ queries' = c.q
        /\ requests' = c.r
  /\ mutations' = mutations \ {m}
  /\ dropped' = FALSE
  /\ UNCHANGED <<now, mutationCount>>
  /\ UNCHANGED tableVars
  /\ UNCHANGED userVars

\* mutationFn rejects: onError, then onSettled.
MutationFails(m) ==
  /\ m \in mutations
  /\ LET c == OnSettled(OnError(Cache, m, transactions, now))
     IN /\ Cardinality(c.r) <= MaxRequests
        /\ queries' = c.q
        /\ requests' = c.r
  /\ mutations' = mutations \ {m}
  /\ dropped' = FALSE
  /\ UNCHANGED <<now, transactions, mutationCount>>
  /\ UNCHANGED tableVars
  /\ UNCHANGED userVars

\* ------------------------------------------------------------------------
\* useUpdateUser
\* ------------------------------------------------------------------------

\* What a caller passes to mutate({id, updates}): the id of a user of the
\* store or an id that no user has, and a change of status.
UserIdPool == {"2", "9"}

UpdatesPool == {[status |-> "active"], [status |-> "inactive"]}

\* A merge that keeps the old entry as it is.
Merge_KeepsOld(user, updates) == user

\* { ...users[userIndex], ...updates }
Merge(user, updates) ==
  [f \in DOMAIN user |-> IF f \in DOMAIN updates THEN updates[f] ELSE user[f]]

\* A mutationFn that adds the user when no user has the id.
MutationFn_Upsert(store, id, updates) ==
  LET userIndex == FindIndex(store, id)
      updatedUser == IF userIndex = 0
                     THEN [id |-> id, status |-> updates.status]
                     ELSE Merge(store[userIndex], updates)
  IN [ok |-> TRUE, error |-> "null",
      store |-> IF userIndex = 0 THEN Append(store, updatedUser)
                ELSE [store EXCEPT ![userIndex] = updatedUser],
      user |-> updatedUser]

\* mutationFn of useUpdateUser, run on the store as it is when the delay is
\* over: it throws 'User not found', or puts the merged user in the place
\* of the old one and returns it.
MutationFn(store, id, updates) ==
  LET userIndex == FindIndex(store, id)
  IN IF userIndex = 0
     THEN [ok |-> FALSE, error |-> "User not found", store |-> store,
           user |-> [id |-> "null", status |-> "null"]]
     ELSE LET updatedUser == Merge(store[userIndex], updates)
          IN [ok |-> TRUE, error |-> "null",
              store |-> [store EXCEPT ![userIndex] = updatedUser],
              user |-> updatedUser]

\* mutate({id, updates}): there is no onMutate; mutationFn starts waiting.
UpdateUser(id, updates) ==
  /\ Cardinality(userMutations) < MaxUserMutations
  /\ userMutations' = userMutations \cup
        {[userId |-> id, updates |-> updates, aged |-> FALSE]}
  /\ userResult' = [status |-> "pending", error |-> "null"]
  /\ dropped' = FALSE
  /\ UNCHANGED <<now, transactions, queries, requests, mutations, mutationCount>>
  /\ UNCHANGED users
  /\ UNCHANGED tableVars

\* onSuccess: the users prefix, then the key of the updated user.
OnSuccess(c, updatedUser) ==
  InvalidateQueries(InvalidateQueries(c, UsersKey), UserByIdKey(updatedUser.id))

\* mutationFn returns the updated user; then onSuccess runs.
UpdateUserSucceeds(u) ==
  /\ u \in userMutations
  /\ LET result == MutationFn(users, u.userId, u.updates)
         c == OnSuccess(Cache, result.user)
     IN /\ result.ok
        /\ users' = result.store
        /\ Cardinality(c.r) <= MaxRequests
        /\ queries' = c.q
        /\ requests' = c.r
  /\ userMutations' = userMutations \ {u}
  /\ userResult' = [status |-> "success", error |-> "null"]
  /\ dropped' = FALSE
  /\ UNCHANGED <<now, transactions, mutations, mutationCount>>
  /\ UNCHANGED tableVars

\* mutationFn throws; onError only logs.
UpdateUserFails(u) ==
  /\ u \in userMutations
  /\ LET result == MutationFn(users, u.userId, u.updates)
     IN /\ ~result.ok
        /\ userResult' = [status |-> "error", error |-> result.error]
  /\ userMutations' = userMutations \ {u}
  /\ dropped' = FALSE
  /\ UNCHANGED <<now, transactions, queries, requests, mutations, mutationCount>>
  /\ UNCHANGED users
  /\ UNCHANGED tableVars

\* ------------------------------------------------------------------------
\* DashboardPage
\* ------------------------------------------------------------------------

\* isLoading of the observer's result
IsLoading(q) == q.status = "pending" /\ q.fetchStatus = "fetching"

\* data?.transactions.slice(0, 5) || []: the rows of 'Recent Transactions'.
\* The summary object's transactions is the array fetchDashboardData put
\* there, which is the store array itself.
RecentCount == 5

RecentTransactions(q, store) ==
  IF ~q.data.has THEN <<>>
  ELSE SubSeq(Deref(q.data, store), 1,
              IF Len(Deref(q.data, store)) < RecentCount
              THEN Len(Deref(q.data, store)) ELSE RecentCount)

\* What DashboardPage returns for the state of its query: the error screen
\* alone, the skeletons, or the dashboard filled with data.
DashboardPage(q) ==
  IF q.error # "null" THEN "error-screen"
  ELSE IF IsLoading(q) \/ ~q.data.has THEN "skeletons"
  ELSE "dashboard"

\* ------------------------------------------------------------------------
\* DataTable: state and handlers
\* ------------------------------------------------------------------------

\* The rows of a table of n rows; a row's id is its place in the input.
RowsOfLength(n) ==
  { [i \in 1..n |-> [id |-> i, description |-> f[i][1], amount |-> f[i][2]]] :
      f \in [1..n -> DescriptionPool \X AmountPool] }

TableInit ==
  /\ data \in UNION {RowsOfLength(n) : n \in 0..MaxRows}
  /\ searchFields \in SearchFieldsPool
  /\ searchTerm = <<>>
  /\ sortState = [column |-> NoColumn, direction |-> "asc"]
  /\ clickRun = [column |-> NoColumn, count |-> 0]
  /\ memoized = ProcessedData

\* A cycle that never clears: descending flips back to ascending.
NextSortState_NoClear(prev, columnId) ==
  IF prev.column # columnId
  THEN [column |-> columnId, direction |-> "asc"]
  ELSE IF prev.direction = "asc"
  THEN [column |-> columnId, direction |-> "desc"]
  ELSE [column |-> columnId, direction |-> "asc"]

\* A cycle that forgets the direction test: the second click already clears.
NextSortState_TwoState(prev, columnId) ==
  IF prev.column # columnId
  THEN [column |-> columnId, direction |-> "asc"]
  ELSE [column |-> NoColumn, direction |-> "asc"]

\* A cycle whose third click clears the column but keeps the direction.
NextSortState_KeepsDirection(prev, columnId) ==
  IF prev.column # columnId
  THEN [column |-> columnId, direction |-> "asc"]
  ELSE IF prev.direction = "asc"
  THEN [column |-> columnId, direction |-> "desc"]
  ELSE [column |-> NoColumn, direction |-> prev.direction]

\* setSortState((prev) => ...) of handleSort.
NextSortState(prev, columnId) ==
  IF prev.column # columnId
  THEN [column |-> columnId, direction |-> "asc"]
  ELSE IF prev.direction = "asc"
  THEN [column |-> columnId, direction |-> "desc"]
  ELSE [column |-> NoColumn, direction |-> "asc"]

\* A pipeline that sorts the caller's array itself.
InputAfterRender_SortsInPlace(rows, term, sf, state) == SortedRows(rows, state)

\* The caller's array after processedData has been computed: the pipeline
\* works on the copy [...data], filter returns a new array and sort
\* reorders that copy, so the array handed in is as it was.
InputAfterRender(rows, term, sf, state) == rows

\* A dependency list that leaves sortState out.
DepsChanged_WithoutSortState(prev, next) ==
  <<prev[1], prev[2], prev[4], prev[5]>> # <<next[1], next[2], next[4], next[5]>>

\* useMemo's test on [data, searchTerm, sortState, columns, searchFields].
DepsChanged(prev, next) == prev # next

\* The render that follows a state update: processedData is recomputed
\* when a dependency changed, else the memoized value is kept.
Render(nextTerm, nextState) ==
  /\ data' = InputAfterRender(data, nextTerm, searchFields, nextState)
  /\ memoized' =
       IF DepsChanged(<<data, searchTerm, sortState, columns, searchFields>>,
                      <<data, nextTerm, nextState, columns, searchFields>>)
       THEN Process(data, nextTerm, searchFields, nextState)
       ELSE memoized

\* onClick={() => handleSort(column.id)} of a sortable column's header.
HandleSort(columnId) ==
  /\ \E i \in 1..Len(columns) : columns[i].id = columnId /\ columns[i].sortable
  /\ sortState' = NextSortState(sortState, columnId)
  /\ clickRun' =
       IF clickRun.column = columnId /\ clickRun.count > 0 /\ clickRun.count < MaxClicks
       THEN [column |-> columnId, count |-> clickRun.count + 1]
       ELSE IF sortState.column = NoColumn
       THEN [column |-> columnId, count |-> 1]
       ELSE [column |-> NoColumn, count |-> 0]
  /\ Render(searchTerm, NextSortState(sortState, columnId))
  /\ UNCHANGED <<searchFields, searchTerm>>
  /\ UNCHANGED cacheVars
  /\ UNCHANGED userVars

\* onChange={(e) => setSearchTerm(e.target.value)} of the search input.
SetSearchTerm(term) ==
  /\ searchTerm' = term
  /\ Render(term, sortState)
  /\ UNCHANGED <<searchFields, sortState, clickRun>>
  /\ UNCHANGED cacheVars
  /\ UNCHANGED userVars

TableNext ==
  \/ \E c \in ColumnIds : HandleSort(c)
  \/ \E term \in SearchTermPool : SetSearchTerm(term)

vars == <<tableVars, cacheVars, userVars>>

\* The table on its own: the cache holds no query.
TableSpecInit == TableInit /\ CacheStart({})

TableSpec == TableSpecInit /\ [][TableNext]_vars

\* The table's variables while the cache is explored: an empty table.
TableIdle ==
  /\ data = <<>>
  /\ searchFields = NoSearchFields
  /\ searchTerm = <<>>
  /\ sortState = [column |-> NoColumn, direction |-> "asc"]
  /\ clickRun = [column |-> NoColumn, count |-> 0]
  /\ memoized = <<>>

\* TransactionsPage with useTransactions and useCreateTransaction.
TxnNext ==
  \/ Mount(TxnKey)
  \/ Unmount(TxnKey)
  \/ \E x \in requests : RequestResolves(x)
  \/ \E x \in requests : RequestRejects(x)
  \/ Tick(TxnMaxTime)
  \/ Mutate
  \/ \E m \in mutations : MutationSucceeds(m)
  \/ \E m \in mutations : MutationFails(m)

TxnInit == CacheStart({TxnKey}) /\ TableIdle

TxnSpec == TxnInit /\ [][TxnNext]_vars

\* The same, with the promises of the mock API settling: every queryFn and
\* every mutationFn waits on simulateApiDelay, a timer that always fires,
\* and a failed read is retried at most `retry` times.
SettleRequest == \E x \in requests : RequestResolves(x) \/ RequestRejects(x)

SettleMutation == \E m \in mutations : MutationSucceeds(m) \/ MutationFails(m)

\* For the check of what eventually happens the clock stops at
\* FairMaxTime: every event of TxnNext, over a shorter time.
TxnFairNext ==
  \/ Mount(TxnKey)
  \/ Unmount(TxnKey)
  \/ \E x \in requests : RequestResolves(x)
  \/ \E x \in requests : RequestRejects(x)
  \/ Tick(FairMaxTime)
  \/ Mutate
  \/ \E m \in mutations : MutationSucceeds(m)
  \/ \E m \in mutations : MutationFails(m)

TxnFairSpec ==
  TxnInit /\ [][TxnFairNext]_vars /\ WF_vars(SettleRequest) /\ SF_vars(SettleMutation)

\* useUpdateUser beside two of: UsersPage with useUsers, a component with
\* useUser('1'), TransactionsPage with useTransactions.  Everything happens
\* within the first minute, so no entry turns stale by age.
UsersKeySets ==
  { {UsersListKey, UserByIdKey("1")},
    {UsersListKey, TxnKey},
    {UserByIdKey("1"), TxnKey} }

UsersNext ==
  \/ \E k \in DOMAIN queries : Mount(k)
  \/ \E k \in DOMAIN queries : Unmount(k)
  \/ \E x \in requests : RequestResolves(x)
  \/ \E x \in requests : RequestRejects(x)
  \/ \E id \in UserIdPool, updates \in UpdatesPool : UpdateUser(id, updates)
  \/ \E u \in userMutations : UpdateUserSucceeds(u)
  \/ \E u \in userMutations : UpdateUserFails(u)

UsersInit == (\E keys \in UsersKeySets : CacheStart(keys)) /\ TableIdle

UsersSpec == UsersInit /\ [][UsersNext]_vars

\* DashboardPage with useDashboardData beside TransactionsPage with
\* useTransactions and useCreateTransaction, under one QueryClient.
RecentNext ==
  \/ \E k \in DOMAIN queries : Mount(k)
  \/ \E k \in DOMAIN queries : Unmount(k)
  \/ \E x \in requests : RequestResolves(x)
  \/ \E x \in requests : RequestRejects(x)
  \/ Tick(RecentMaxTime)
  \/ Mutate
  \/ \E m \in mutations : MutationSucceeds(m)
  \/ \E m \in mutations : MutationFails(m)

RecentInit == CacheStart({SummaryKey, TxnKey}) /\ TableIdle

RecentSpec == RecentInit /\ [][RecentNext]_vars

\* The consumers of one read-only hook: DashboardPage with
\* useDashboardData, or a component with useKPIMetrics.
DashNext ==
  \/ \E k \in DOMAIN queries : Mount(k)
  \/ \E k \in DOMAIN queries : Unmount(k)
  \/ \E x \in requests : RequestResolves(x)
  \/ \E x \in requests : RequestRejects(x)
  \/ Tick(MaxTime)
  \/ \E k \in DOMAIN queries : GcTimer(k)

DashInit == (CacheStart({SummaryKey}) \/ CacheStart({KpisKey})) /\ TableIdle

DashSpec == DashInit /\ [][DashNext]_vars

\* ------------------------------------------------------------------------
\* DataTable: properties
\* ------------------------------------------------------------------------

\* The value of the sorted field of the row shown at place i.
SortedValue(i) == ProcessedData[i][AccessorOf(sortState.column)]

SortsByData == sortState.column # NoColumn /\ AccessorOf(sortState.column) # "none"

\* C1: whenever a data column is sorted, in either direction, no row with a
\* null value in the sorted field is shown before a row with a non-null value.
C1_NullsLast ==
  SortsByData =>
    \A i, j \in 1..Len(ProcessedData) :
       (i < j /\ SortedValue(i).kind = "null") => SortedValue(j).kind = "null"

\* C11: sorting is stable.  Two shown rows whose values in the sorted field
\* are equal are shown in the order they have in the input, ascending and
\* descending; with the sort cleared every two shown rows are.
C11_StableSort ==
  \A i, j \in 1..Len(ProcessedData) :
     (/\ i < j
      /\ SortsByData => SortedValue(i) = SortedValue(j))
        => ProcessedData[i].id < ProcessedData[j].id

\* C11 witness: a descending sort shows two rows with the same non-null
\* value that are not neighbours in the input.
C11_Witness ==
  /\ SortsByData
  /\ sortState.direction = "desc"
  /\ \E i, j \in 1..Len(ProcessedData) :
        /\ i < j
        /\ SortedValue(i) = SortedValue(j)
        /\ SortedValue(i).kind # "null"
        /\ ProcessedData[j].id > ProcessedData[i].id + 1

\* C12: with a non-empty search text a row of the input is shown if and
\* only if one of the searched fields (searchFields when given, else every
\* column's accessorKey) holds a non-null value whose lower-cased string
\* form contains the lower-cased search text; with an empty search text
\* every row is shown.
C12_SearchFilter ==
  LET searched ==
        IF searchFields.given
        THEN {searchFields.fields[i] : i \in 1..Len(searchFields.fields)}
        ELSE {columns[i].accessorKey : i \in 1..Len(columns)} \ {"none"}
      matches(row) ==
        \E f \in searched :
           /\ row[f] # NullValue
           /\ Includes(ToLowerCase(StringOf(row[f])), ToLowerCase(searchTerm))
      shown(row) == \E j \in 1..Len(ProcessedData) : ProcessedData[j] = row
  IN \A i \in 1..Len(data) :
        IF searchTerm = <<>> THEN shown(data[i])
        ELSE shown(data[i]) <=> matches(data[i])

\* C12 witness: the search text "b" keeps a row whose description is "B"
\* and drops a row whose description is null.
C12_Witness ==
  /\ searchTerm = <<Lc(2)>>
  /\ \E j \in 1..Len(ProcessedData) : ProcessedData[j].description = Str(<<Uc(2)>>)
  /\ \E i \in 1..Len(data) :
        /\ data[i].description = NullValue
        /\ \A j \in 1..Len(ProcessedData) : ProcessedData[j] # data[i]

\* C13: the table never shows more rows than it was given, every shown row
\* is a row of the input, and no row is shown twice.
C13_NoInventedRows ==
  /\ Len(ProcessedData) <= Len(data)
  /\ \A j \in 1..Len(ProcessedData) : \E i \in 1..Len(data) : data[i] = ProcessedData[j]
  /\ \A j, h \in 1..Len(ProcessedData) : j # h => ProcessedData[j] # ProcessedData[h]

\* C13 witness: a search and a sort are both active and some, but not all,
\* of the input rows are shown.
C13_Witness ==
  /\ searchTerm # <<>>
  /\ SortsByData
  /\ Len(ProcessedData) >= 2
  /\ Len(ProcessedData) < Len(data)

\* C20: when the active sort column has no accessorKey the shown rows are
\* the filtered rows in the order of the input, in both directions.
C20_NoAccessorNoSort ==
  (sortState.column # NoColumn /\ AccessorOf(sortState.column) = "none")
     => ProcessedData = FilteredRows(data, searchTerm, searchFields)

\* C20 witness: the accessor-less column is the active sort column,
\* descending, over rows that a sort by description would reorder.
C20_Witness ==
  /\ sortState = [column |-> "actions", direction |-> "desc"]
  /\ Len(ProcessedData) >= 2
  /\ ProcessedData # StableSort(ProcessedData, "description", "desc")

\* The other direction of the active sort.
Opposite(state) ==
  [column |-> state.column,
   direction |-> IF state.direction = "asc" THEN "desc" ELSE "asc"]

\* C21: when a data column is sorted and the shown rows' values in it are
\* non-null and pairwise distinct, the rows shown are exactly the reverse
\* of the rows that the other direction shows.
C21_DescendingIsReverse ==
  (/\ SortsByData
   /\ \A i \in 1..Len(ProcessedData) : SortedValue(i) # NullValue
   /\ \A i, j \in 1..Len(ProcessedData) : i # j => SortedValue(i) # SortedValue(j))
     => LET other == Process(data, searchTerm, searchFields, Opposite(sortState))
        IN /\ Len(other) = Len(ProcessedData)
           /\ \A i \in 1..Len(other) :
                 ProcessedData[i] = other[Len(other) + 1 - i]

\* C21 witness: a descending sort by amount shows the row with the larger
\* amount first although the input has it last.
C21_Witness ==
  /\ sortState = [column |-> "amount", direction |-> "desc"]
  /\ Len(ProcessedData) = 2
  /\ ProcessedData[1].amount = Num(2)
  /\ ProcessedData[2].amount = Num(1)
  /\ ProcessedData[1].id > ProcessedData[2].id

C29_NoColumnIsAscending ==
  sortState.column = NoColumn => sortState.direction = "asc"

\* C29 witness: the sort was cleared by a click on the column that was
\* sorted descending, while a search text is set.
C29_Witness ==
  /\ clickRun.count = 3
  /\ sortState.column = NoColumn
  /\ searchTerm # <<>>

\* C30: a search edit leaves SortState as it is, a header click leaves the
\* search text as it is, and before and after every step the rows shown are
\* the pipeline's result for the present data, search text, SortState and
\* searchFields, whatever the edits and clicks before.
C30_SearchSortIndependent ==
  [][/\ (\E term \in SearchTermPool : SetSearchTerm(term)) => sortState' = sortState
     /\ (\E c \in ColumnIds : HandleSort(c)) => searchTerm' = searchTerm
     /\ memoized = Process(data, searchTerm, searchFields, sortState)
     /\ memoized' = Process(data', searchTerm', searchFields', sortState')]_vars

\* C30 witness: a search text and a descending sort are both set, and
\* the rows shown are both filtered and reordered.
C30_Witness ==
  /\ searchTerm # <<>>
  /\ SortsByData
  /\ sortState.direction = "desc"
  /\ Len(memoized) >= 2
  /\ Len(memoized) < Len(data)
  /\ memoized # FilteredRows(data, searchTerm, searchFields)

\* ---------------------------------------------------------------------
\* Properties of the query cache and the createTransaction mutation
\* ---------------------------------------------------------------------

TxnEntry == queries[TxnKey]

\* C2: when mutationFn fails, what a read of ['transactions'] returns after
\* the rollback is exactly what it returned before onMutate ran: the same
\* list if there was one, and no entry's data at all if there was none.
C2_RollbackRestores ==
  [][\A m \in mutations :
       MutationFails(m) =>
         /\ queries'[TxnKey].data.has = m.previousTransactions.has
         /\ m.previousTransactions.has =>
              Deref(queries'[TxnKey].data, transactions') = m.before]_vars

\* C3: the response of a fetch that was outstanding when a still pending
\* mutation ran onMutate leaves the cache entry exactly as it is, whether
\* the fetch resolves or rejects: it cannot overwrite the optimistic write.
C3_CancelledFetchCannotOverwrite ==
  [][\A x \in requests : \A m \in mutations :
       (x.id \in m.inflight /\ (RequestResolves(x) \/ RequestRejects(x)))
          => queries'[TxnKey] = queries[TxnKey]]_vars

\* C3 witness: the response of a cancelled fetch has just arrived while the
\* mutation is still pending, and the cache holds the optimistic list.
C3_Witness ==
  /\ dropped
  /\ \E m \in mutations :
        /\ m.previousTransactions.has
        /\ TxnEntry.data.has
        /\ TxnEntry.status = "success"
        /\ Deref(TxnEntry.data, transactions) = <<m.temp>> \o m.before

\* C4 as stated: however many observers read a key, the fetch function is
\* called exactly once for the fetch they share.
C4_FetchFunctionCalledOnce ==
  \A k \in DOMAIN queries :
     queries[k].fetchStatus = "fetching" =>
        /\ Cardinality(LiveRequests(requests, k)) = 1
        /\ \A x \in LiveRequests(requests, k) : x.calls = 1

\* C4 amended: however many observers read a key, they share one request;
\* the fetch function is called once for it, plus once for each failed
\* attempt that the retry policy repeats (retry: 1, so at most twice).
C4_OneSharedRequest ==
  \A k \in DOMAIN queries :
     /\ Cardinality(LiveRequests(requests, k)) <= 1
     /\ queries[k].fetchStatus = "fetching" =>
          /\ Cardinality(LiveRequests(requests, k)) = 1
          /\ \A x \in LiveRequests(requests, k) :
                /\ x.calls = 1 + x.failureCount
                /\ x.calls <= 1 + Retry

\* C4 witness: two observers wait on an entry without data whose single
\* request is in its second attempt.
C4_Witness ==
  \E k \in DOMAIN queries :
     /\ queries[k].observers = 2
     /\ ~queries[k].data.has
     /\ queries[k].fetchStatus = "fetching"
     /\ \E x \in LiveRequests(requests, k) : x.calls = 2

WindowOf(k) == IF k = SummaryKey THEN 5 ELSE 1

\* C6: a read (a mounting observer) of an entry that holds data fetched at
\* t0 starts no request before t0 + staleTime and returns the cached data;
\* after t0 + staleTime it returns the same cached data at once and has one
\* refresh in flight.
C6_StalenessWindow ==
  [][\A k \in DOMAIN queries :
       (Mount(k) /\ queries[k].data.has) =>
          /\ queries'[k].data = queries[k].data
          /\ queries'[k].dataUpdatedAt = queries[k].dataUpdatedAt
          /\ now < queries[k].dataUpdatedAt + WindowOf(k) =>
                /\ requests' = requests
                /\ queries'[k].fetchStatus = queries[k].fetchStatus
          /\ now > queries[k].dataUpdatedAt + WindowOf(k) =>
                /\ queries'[k].fetchStatus = "fetching"
                /\ Cardinality(LiveRequests(requests', k)) = 1]_vars

\* C6 witness: an entry read later than its staleTime after the fetch still
\* holds the data of that fetch and has a refresh in flight.
C6_Witness ==
  \E k \in DOMAIN queries :
     /\ k = SummaryKey
     /\ queries[k].data.has
     /\ queries[k].observers > 0
     /\ now > queries[k].dataUpdatedAt + WindowOf(k)
     /\ queries[k].fetchStatus = "fetching"

C8_FailedFetchKeepsData ==
  [][\A x \in requests :
       (/\ RequestRejects(x)
        /\ ~x.cancelled
        /\ x \notin requests'
        /\ \A y \in requests' : y.id # x.id) =>
          /\ queries'[x.key].status = "error"
          /\ queries'[x.key].error # "null"
          /\ queries'[x.key].data = queries[x.key].data
          /\ queries'[x.key].dataUpdatedAt = queries[x.key].dataUpdatedAt]_vars

\* C8 witness: an entry in status error, with its error recorded, that still
\* holds the data of an earlier successful fetch.
C8_Witness ==
  \E k \in DOMAIN queries :
     /\ queries[k].status = "error"
     /\ queries[k].error # "null"
     /\ queries[k].data.has
     /\ queries[k].fetchStatus = "idle"

\* C9: a click on a sortable column c moves SortState to (c, asc) when no
\* column or another column is active, to (c, desc) when c is active
\* ascending, and to (no column, asc) when c is active descending.
C9_SortCycle ==
  [][\A c \in ColumnIds :
       HandleSort(c) =>
         /\ (sortState.column = NoColumn \/ sortState.column # c)
              => sortState' = [column |-> c, direction |-> "asc"]
         /\ (sortState.column = c /\ sortState.direction = "asc")
              => sortState' = [column |-> c, direction |-> "desc"]
         /\ (sortState.column = c /\ sortState.direction = "desc")
              => sortState' = [column |-> NoColumn, direction |-> "asc"]]_vars

\* A column is active descending: the second click of the cycle was made.
C9_Witness == sortState = [column |-> "amount", direction |-> "desc"]

\* C10: from the unsorted state, three clicks in a row on one column leave no
\* column selected, and four leave the state the first click produced.
C10_ThreeAndFourClicks ==
  /\ clickRun.count = 1 => sortState = [column |-> clickRun.column, direction |-> "asc"]
  /\ clickRun.count = 3 => sortState.column = NoColumn
  /\ clickRun.count = 4 => sortState = [column |-> clickRun.column, direction |-> "asc"]

\* The fourth click in a row on the description header was made.
C10_Witness == clickRun = [column |-> "description", count |-> 4]

\* ---------------------------------------------------------------------
\* Properties of invalidation and of the phases of a mutation
\* ---------------------------------------------------------------------

\* C15: the invalidation run by onSettled deletes nothing.  The data of the
\* ['transactions'] entry after the step is the data it held when onSettled
\* began (after onError's restore, on a failure), the entry is marked
\* invalidated, and a read of it is stale, so it refetches.
C15_InvalidationKeepsData ==
  [][\A m \in mutations :
       /\ MutationSucceeds(m) =>
            /\ queries'[TxnKey].data = queries[TxnKey].data
            /\ queries'[TxnKey].dataUpdatedAt = queries[TxnKey].dataUpdatedAt
            /\ queries'[TxnKey].isInvalidated
            /\ IsStale(queries'[TxnKey], StaleTimeOf(TxnKey), now')
       /\ MutationFails(m) =>
            LET restored == OnError(Cache, m, transactions, now).q[TxnKey]
            IN /\ queries'[TxnKey].data = restored.data
               /\ queries'[TxnKey].dataUpdatedAt = restored.dataUpdatedAt
               /\ queries'[TxnKey].isInvalidated
               /\ IsStale(queries'[TxnKey], StaleTimeOf(TxnKey), now')]_vars

\* C15 witness: every mutation has settled, nobody observes the entry, and
\* it is invalidated while still holding its list.
C15_Witness ==
  /\ mutations = {}
  /\ mutationCount > 0
  /\ TxnEntry.isInvalidated
  /\ TxnEntry.data.has
  /\ TxnEntry.observers = 0
  /\ TxnEntry.fetchStatus = "idle"

\* C17: once a failed mutation has settled, its optimistic transaction is
\* no longer in the cached list (unless a mutation that is still pending
\* wrote one with the same id).
C17_RolledBackWhenSettled ==
  [][\A m \in mutations :
       (/\ MutationFails(m)
        /\ \A o \in mutations' : o.temp # m.temp)
          => \A i \in 1..Len(Deref(queries'[TxnKey].data, transactions')) :
                Deref(queries'[TxnKey].data, transactions')[i] # m.temp]_vars

\* C18: onMutate comes first and in order.  After the step that runs it no
\* read of ['transactions'] is attached to the entry any more, the cached
\* list is the optimistic transaction put in front of the snapshot (so the
\* snapshot was read before the write and is one row shorter), and the
\* store is untouched; the store changes only when a mutation that has
\* been through onMutate has its mutationFn resolve.
C18_PhasesInOrder ==
  [][/\ Mutate =>
          /\ LiveRequests(requests', TxnKey) = {}
          /\ queries'[TxnKey].fetchStatus = "idle"
          /\ transactions' = transactions
          /\ \E m \in mutations' \ mutations :
                /\ m.id = mutationCount'
                /\ m.before = (IF m.previousTransactions.has
                               THEN Deref(m.previousTransactions, transactions)
                               ELSE <<>>)
                /\ Deref(queries'[TxnKey].data, transactions') = <<m.temp>> \o m.before
     /\ transactions' # transactions =>
          \E m \in mutations :
             /\ MutationSucceeds(m)
             /\ Len(transactions') = Len(transactions) + 1]_vars

\* C18 witness: a mutation whose onMutate cancelled a read in flight has had
\* its mutationFn resolve, and the store now holds its transaction.
C18_Witness ==
  /\ Len(transactions) > Len(InitialTransactions)
  /\ \E x \in requests : x.key = TxnKey /\ x.cancelled
  /\ TxnEntry.data.has

\* C19: when the response of a cancelled request arrives while a newer
\* request for the same key is in flight, the entry is left exactly as it
\* is and the newer request stays attached to it.
C19_LateResponseDropped ==
  [][\A x \in requests : \A y \in requests :
       (/\ x.cancelled
        /\ ~y.cancelled
        /\ y.key = x.key
        /\ (RequestResolves(x) \/ RequestRejects(x)))
          => /\ queries' = queries
             /\ y \in requests'
             /\ queries'[y.key].retryer = y.id
             /\ queries'[y.key].fetchStatus = "fetching"]_vars

\* C19 witness: the response of a cancelled request has just been dropped
\* while a newer request for the key is in flight.
C19_Witness ==
  /\ dropped
  /\ TxnEntry.fetchStatus = "fetching"
  /\ \E y \in requests : y.key = TxnKey /\ ~y.cancelled /\ TxnEntry.retryer = y.id

\* The mutations that are pending before a step and no longer after it.
SettledInStep == {m \in mutations : \A o \in mutations' : o.id # m.id}

\* C16: every createTransaction mutation that was started settles, once:
\* whenever mutations are pending, eventually none is; a step settles at most
\* one mutation and leaves the ['transactions'] entry invalidated, so that
\* a read of it is stale; and a mutation that has settled never becomes
\* pending again (a mutation that becomes pending is a new one).
C16_EveryMutationSettlesOnce ==
  /\ (mutations # {}) ~> (mutations = {})
  /\ [][/\ Cardinality(SettledInStep) <= 1
        /\ SettledInStep # {} =>
             /\ queries'[TxnKey].isInvalidated
             /\ IsStale(queries'[TxnKey], StaleTimeOf(TxnKey), now')
        /\ \A o \in mutations' :
             (\A m \in mutations : m.id # o.id) =>
                (o.id = mutationCount + 1 /\ mutationCount' = o.id)]_vars

\* C16 witness: two mutations were started, one succeeded and one failed,
\* both have settled, and the entry is invalidated.
C16_Witness ==
  /\ mutationCount = 2
  /\ mutations = {}
  /\ Len(transactions) = Len(InitialTransactions) + 1
  /\ TxnEntry.isInvalidated

\* C14: the invalidation after a successful updateUser marks every entry
\* whose key starts with 'users' (the list under ['users', filters] and
\* the user under ['users', id], whichever user was updated) and leaves
\* every other entry exactly as it was.
C14_PrefixInvalidation ==
  [][\A u \in userMutations :
       UpdateUserSucceeds(u) =>
          \A k \in DOMAIN queries :
             queries[k].exists =>
                IF k[1] = "users"
                THEN queries'[k].isInvalidated
                ELSE queries'[k] = queries[k]]_vars

\* C14 witness: after an update of user '2' the entry of user '1' is
\* invalidated and still holds its data.
C14_Witness ==
  /\ users # InitialUsers
  /\ UserByIdKey("1") \in DOMAIN queries
  /\ queries[UserByIdKey("1")].isInvalidated
  /\ queries[UserByIdKey("1")].data.has
  /\ queries[UserByIdKey("1")].fetchStatus = "idle"

\* ---------------------------------------------------------------------
\* Properties of useUpdateUser
\* ---------------------------------------------------------------------

\* The pending updates that a step settles.
UserSettledInStep == userMutations \ userMutations'

\* C23: an updateUser whose id no user of the store has ends in the error
\* 'User not found', with the store, every cache entry and the requests in
\* flight exactly as they were.
C23_UnknownUserFails ==
  [][\A u \in UserSettledInStep :
       (\A i \in 1..Len(users) : users[i].id # u.userId) =>
          /\ userResult' = [status |-> "error", error |-> "User not found"]
          /\ users' = users
          /\ queries' = queries
          /\ requests' = requests]_vars

\* C23 witness: the last update ended in 'User not found' while a users
\* entry holds data that is not invalidated.
C23_Witness ==
  /\ userResult = [status |-> "error", error |-> "User not found"]
  /\ \E k \in DOMAIN queries :
        /\ k[1] = "users"
        /\ queries[k].data.has
        /\ ~queries[k].isInvalidated

\* C24: a successful updateUser leaves the store as long as it was, puts in
\* the place of the user with the id that user with the updates applied,
\* leaves every other user as it was, and marks every existing cache entry
\* whose key starts with 'users' invalidated.
C24_UpdateReplacesOne ==
  [][\A u \in UserSettledInStep :
       userResult'.status = "success" =>
          /\ Len(users') = Len(users)
          /\ \E i \in 1..Len(users) :
                /\ users[i].id = u.userId
                /\ users'[i].id = users[i].id
                /\ users'[i].status = u.updates.status
                /\ \A j \in 1..Len(users) : j # i => users'[j] = users[j]
          /\ \A k \in DOMAIN queries :
                (queries[k].exists /\ k[1] = "users") => queries'[k].isInvalidated]_vars

\* C24 witness: user '2' has been made active, user '1' is as before, and
\* the observed users list is invalidated and being refetched.
C24_Witness ==
  /\ userResult.status = "success"
  /\ users[2] = [id |-> "2", status |-> "active"]
  /\ users[1] = InitialUsers[1]
  /\ UsersListKey \in DOMAIN queries
  /\ queries[UsersListKey].isInvalidated
  /\ queries[UsersListKey].data.has
  /\ queries[UsersListKey].fetchStatus = "fetching"

\* ---------------------------------------------------------------------
\* Properties of useCreateTransaction with useTransactions, continued
\* ---------------------------------------------------------------------

\* The cached transactions list as a reader sees it.
CachedTransactions == Deref(TxnEntry.data, transactions)

\* Every mutation has settled and the refetch that the last invalidation
\* started has written its result: nothing is pending, the entry is idle,
\* successful and no longer invalidated.
Reconciled ==
  /\ mutationCount > 0
  /\ mutations = {}
  /\ TxnEntry.exists
  /\ TxnEntry.status = "success"
  /\ TxnEntry.fetchStatus = "idle"
  /\ ~TxnEntry.isInvalidated

\* C25: once every createTransaction mutation has settled and the refetch
\* after the invalidation has completed, the cached transactions list is
\* the store's list: no 'temp-' entry is left in it, and the transactions
\* that were created are in it as often as they are in the store.
C25_ReconciledWithStore ==
  Reconciled =>
    /\ TxnEntry.data.has
    /\ CachedTransactions = transactions
    /\ \A i \in 1..Len(CachedTransactions) : CachedTransactions[i].tag # "temp"

\* C25 witness: reconciled after one mutation that succeeded and one that
\* failed, the cache holding a list of its own with the created transaction.
C25_Witness ==
  /\ Reconciled
  /\ mutationCount = 2
  /\ Len(transactions) = Len(InitialTransactions) + 1
  /\ ~TxnEntry.data.alias
  /\ CachedTransactions[1].tag = "txn"

\* Whether the cached list of entry q holds transaction t.
Holds(q, store, t) ==
  \E i \in 1..Len(Deref(q.data, store)) : Deref(q.data, store)[i] = t

\* C26: when a mutation fails while another one (with another optimistic
\* id) is pending, the rollback takes only the failed mutation's own
\* optimistic entry away: the other mutation's optimistic entry, in the
\* cached list before the failure, is still in it right after.
C26_RollbackRemovesOnlyOwn ==
  [][\A m \in mutations : \A o \in mutations :
       (/\ MutationFails(m)
        /\ o # m
        /\ o.temp # m.temp
        /\ Holds(queries[TxnKey], transactions, o.temp))
          => Holds(queries'[TxnKey], transactions', o.temp)]_vars

\* C27: the transactions of the store have pairwise distinct ids, also
\* after two mutations whose mutationFn resolved at the same clock value.
C27_StoreIdsDistinct ==
  \A i \in 1..Len(transactions) : \A j \in 1..Len(transactions) :
     i # j => transactions[i] # transactions[j]

\* ---------------------------------------------------------------------
\* Properties of the dashboard summary beside useCreateTransaction
\* ---------------------------------------------------------------------

SummaryEntry == queries[SummaryKey]

\* A step in which a createTransaction mutation settles.
MutationSettles == SettledInStep # {}

\* A step in which a DashboardPage mounts.
SummaryMounts == queries'[SummaryKey].observers > SummaryEntry.observers

\* The summary entry is within its freshness window.
SummaryFresh ==
  /\ SummaryEntry.data.has
  /\ ~SummaryEntry.isInvalidated
  /\ now < SummaryEntry.dataUpdatedAt + SummaryStaleTime

\* What the settlement does to the cache and what a mount in the window
\* does: only entries under ['transactions'] are newly invalidated, the
\* summary entry's state is as it was and no read of it starts, and a
\* DashboardPage mounting in the window starts no read either.
SettleLeavesSummary ==
  /\ MutationSettles =>
        /\ \A k \in DOMAIN queries :
              (queries'[k].isInvalidated /\ ~queries[k].isInvalidated)
                 => HasPrefix(k, TxnKey)
        /\ queries'[SummaryKey] = SummaryEntry
        /\ LiveRequests(requests', SummaryKey) = LiveRequests(requests, SummaryKey)
  /\ (SummaryMounts /\ SummaryFresh) =>
        /\ requests' = requests
        /\ queries'[SummaryKey].data = SummaryEntry.data
        /\ queries'[SummaryKey].dataUpdatedAt = SummaryEntry.dataUpdatedAt
        /\ queries'[SummaryKey].fetchStatus = SummaryEntry.fetchStatus

====
